---- MODULE Spec2Model ----
(***************************************************************************)
(* Model of simulation_results/plotter.py: the script reads stdout.txt,    *)
(* locates the FFT block between the header line and the next blank line,  *)
(* parses every line of the block into (bin, real, imag) and plots the     *)
(* two series.  One action per statement of the script.                    *)
(*                                                                         *)
(* A str is a sequence of one-character strings.  A Python int is a record *)
(* [neg, mag]: a sign and the decimal digits of the magnitude, most        *)
(* significant first, because Python ints are unbounded while the values   *)
(* in the log (0xFFFFFFF6) exceed the 32-bit integers of TLC.              *)
(***************************************************************************)
EXTENDS Integers, Sequences, FiniteSets, TLC

\* ------------------------------------------------------------------ bounds

\* Most segments (lines or line fragments) a generated file is made of.
MaxSegs == 4

\* Most data lines between the header and the blank line of a block file.
MaxData == 2

\* ------------------------------------------------------- Python primitives

Min(S) == CHOOSE x \in S : \A y \in S : x <= y

\* s[a:b] for 0 <= a and b <= len(s)
Slice(s, a, b) == SubSeq(s, a + 1, b)

\* s[a:]
SliceFrom(s, a) == SubSeq(s, a + 1, Len(s))

Matches(s, sub, i) ==
    /\ i + Len(sub) <= Len(s)
    /\ \A k \in 1..Len(sub) : s[i + k] = sub[k]

\* str.index(sub): the lowest index where sub occurs, -1 where Python raises
\* ValueError
StrIndex(s, sub) ==
    LET I == {i \in 0..(Len(s) - Len(sub)) : Matches(s, sub, i)}
    IN  IF I = {} THEN -1 ELSE Min(I)

\* list.index(x): the lowest index of an element equal to x, -1 where Python
\* raises ValueError
ListIndex(xs, x) ==
    LET I == {i \in 0..(Len(xs) - 1) : xs[i + 1] = x}
    IN  IF I = {} THEN -1 ELSE Min(I)

\* Text mode with the default newline=None: "\r\n" and a lone "\r" are read
\* as "\n".
Translate(c) ==
    LET marked == [i \in 1..Len(c) |->
                      IF c[i] = "\n" /\ i > 1 /\ c[i - 1] = "\r" THEN ""
                      ELSE IF c[i] = "\r" THEN "\n"
                      ELSE c[i]]
        Kept(x) == x # ""
    IN  SelectSeq(marked, Kept)

\* f.readlines() on already translated text: the lines with their "\n" kept;
\* only the last line can lack it.
RECURSIVE SplitLines(_)
SplitLines(c) ==
    IF c = <<>> THEN <<>>
    ELSE LET p == StrIndex(c, <<"\n">>)
         IN  IF p = -1 THEN <<c>>
             ELSE <<SubSeq(c, 1, p + 1)>> \o SplitLines(SubSeq(c, p + 2, Len(c)))

ReadLinesOf(c) == SplitLines(Translate(c))

\* ------------------------------------------------------------ Python ints

Whitespace == {" ", "\t", "\n", "\r"}

RECURSIVE LStrip(_)
LStrip(s) ==
    IF s # <<>> /\ s[1] \in Whitespace THEN LStrip(Tail(s)) ELSE s

RECURSIVE RStrip(_)
RStrip(s) ==
    IF s # <<>> /\ s[Len(s)] \in Whitespace
    THEN RStrip(SubSeq(s, 1, Len(s) - 1)) ELSE s

Strip(s) == RStrip(LStrip(s))

DecChars == <<"0", "1", "2", "3", "4", "5", "6", "7", "8", "9">>
LowerChars == <<"a", "b", "c", "d", "e", "f">>
UpperChars == <<"A", "B", "C", "D", "E", "F">>

\* The value of a digit character; 37 for a character that is a digit in
\* neither base 10 nor base 16.
\* Variant: a digit table without the lowercase letters.
DigitValue_UpperOnly(c) ==
    IF \E i \in 1..10 : DecChars[i] = c
    THEN (CHOOSE i \in 1..10 : DecChars[i] = c) - 1
    ELSE IF \E i \in 1..6 : UpperChars[i] = c
    THEN (CHOOSE i \in 1..6 : UpperChars[i] = c) + 9
    ELSE 37

DigitValue(c) ==
    IF \E i \in 1..10 : DecChars[i] = c
    THEN (CHOOSE i \in 1..10 : DecChars[i] = c) - 1
    ELSE IF \E i \in 1..6 : LowerChars[i] = c
    THEN (CHOOSE i \in 1..6 : LowerChars[i] = c) + 9
    ELSE IF \E i \in 1..6 : UpperChars[i] = c
    THEN (CHOOSE i \in 1..6 : UpperChars[i] = c) + 9
    ELSE 37

\* Leading zeros dropped; zero is <<0>>.
RECURSIVE Norm(_)
Norm(ds) ==
    IF Len(ds) > 1 /\ ds[1] = 0 THEN Norm(Tail(ds))
    ELSE IF ds = <<>> THEN <<0>> ELSE ds

\* The decimal digits of ds * m + c, possibly with leading zeros.
RECURSIVE MulAddRaw(_, _, _)
MulAddRaw(ds, m, c) ==
    IF ds = <<>>
    THEN IF c = 0 THEN <<>> ELSE MulAddRaw(<<>>, m, c \div 10) \o <<c % 10>>
    ELSE LET v == ds[Len(ds)] * m + c
         IN  MulAddRaw(SubSeq(ds, 1, Len(ds) - 1), m, v \div 10) \o <<v % 10>>

MulAdd(ds, m, c) == Norm(MulAddRaw(ds, m, c))

\* The quotient and remainder of a magnitude by a small divisor.
RECURSIVE DivStep(_, _, _, _)
DivStep(ds, m, rem, acc) ==
    IF ds = <<>> THEN [q |-> Norm(acc), r |-> rem]
    ELSE LET cur == rem * 10 + ds[1]
         IN  DivStep(Tail(ds), m, cur % m, Append(acc, cur \div m))

\* The base-16 digit values of a magnitude, most significant first; zero is <<0>>.
RECURSIVE HexDigitsOf(_)
HexDigitsOf(mag) ==
    LET d == DivStep(mag, 16, 0, <<>>)
    IN  IF d.q = <<0>> THEN <<d.r>> ELSE Append(HexDigitsOf(d.q), d.r)

HexChars ==
    <<"0", "1", "2", "3", "4", "5", "6", "7", "8", "9", "a", "b", "c", "d", "e", "f">>

\* The magnitude of a run of digits and underscores, read left to right.
RECURSIVE Accumulate(_, _, _)
Accumulate(body, base, acc) ==
    IF body = <<>> THEN acc
    ELSE IF body[1] = "_" THEN Accumulate(Tail(body), base, acc)
    ELSE Accumulate(Tail(body), base, MulAdd(acc, base, DigitValue(body[1])))

\* Digits of the base, with single underscores only between two digits.
ValidDigits(body, base) ==
    /\ body # <<>>
    /\ body[1] # "_"
    /\ body[Len(body)] # "_"
    /\ \A k \in 1..Len(body) :
          \/ DigitValue(body[k]) < base
          \/ body[k] = "_" /\ k < Len(body) /\ body[k + 1] # "_"

\* int(tok, base) for base 10 or 16: surrounding whitespace, an optional
\* sign, for base 16 an optional 0x or 0X (which one underscore may follow),
\* then the digits.  ok is FALSE where Python raises ValueError.
PyInt(tok, base) ==
    LET s      == Strip(tok)
        signed == s # <<>> /\ s[1] \in {"+", "-"}
        neg    == s # <<>> /\ s[1] = "-"
        u      == IF signed THEN Tail(s) ELSE s
        pre    == base = 16 /\ Len(u) >= 2 /\ u[1] = "0" /\ u[2] \in {"x", "X"}
        v      == IF pre THEN SubSeq(u, 3, Len(u)) ELSE u
        body   == IF pre /\ v # <<>> /\ v[1] = "_" THEN Tail(v) ELSE v
    IN  IF ValidDigits(body, base)
        THEN LET mag == Accumulate(body, base, <<0>>)
             IN  [ok |-> TRUE, val |-> [neg |-> neg /\ mag # <<0>>, mag |-> mag]]
        ELSE [ok |-> FALSE, val |-> [neg |-> FALSE, mag |-> <<0>>]]

\* --------------------------------------------------------------- the input

\* The marker of line 8.
HEADER ==
    <<"C","a","p","t","u","r","i","n","g"," ","F","F","T"," ","o","u","t","p","u","t"," ","(","f","r","e","q","u","e","n","c","y"," ","d","o","m","a","i","n",")",":","\n">>

BLANK == <<"\n">>

BinTag == <<"B", "i", "n", "[">>
BinClose == <<"]">>
RealTag == <<"R", "e", "a", "l", "=">>
ImagTag == <<"I", "m", "a", "g", "=">>
Space == <<" ">>

\* The header without its newline: a header only when a newline follows.
HeaderText ==
    <<"C","a","p","t","u","r","i","n","g"," ","F","F","T"," ","o","u","t","p","u","t"," ","(","f","r","e","q","u","e","n","c","y"," ","d","o","m","a","i","n",")",":">>

\* The header with a space before its newline.
HeaderTrailingSpace ==
    <<"C","a","p","t","u","r","i","n","g"," ","F","F","T"," ","o","u","t","p","u","t"," ","(","f","r","e","q","u","e","n","c","y"," ","d","o","m","a","i","n",")",":"," ","\n">>

\* Well-formed data lines.
Scenario0 ==
    <<"B","i","n","[","0","]"," ","R","e","a","l","=","0","x","0","0","0","0","0","0","0","A"," ","I","m","a","g","=","0","x","F","F","F","F","F","F","F","6"," ","\n">>

Scenario1 ==
    <<"B","i","n","[","1","]"," ","R","e","a","l","=","0","x","0","0","0","0","0","0","1","4"," ","I","m","a","g","=","0","x","F","F","F","F","F","F","E","C"," ","\n">>

GoodSigned ==
    <<"B","i","n","["," ","1","2"," ","]"," ","R","e","a","l","=","-","0","x","a"," ","I","m","a","g","=","+","7","_","F"," ","\n">>

GoodBare ==
    <<"B","i","n","[","-","3","]"," ","R","e","a","l","=","0"," ","I","m","a","g","=","0","X","0"," ","\n">>

GoodZeros ==
    <<"B","i","n","[","0","0","7","]"," ","R","e","a","l","=","f","f"," ","I","m","a","g","=","-","0"," ","\n">>

GoodReordered ==
    <<"I","m","a","g","=","0","x","1"," ","R","e","a","l","=","0","x","2"," ","B","i","n","[","5","]"," ","\n">>

\* Malformed data lines, one for each statement of the loop that can raise.
NoBinOpen ==
    <<"R","e","a","l","=","0","x","1"," ","I","m","a","g","=","0","x","2"," ","\n">>

NoBinClose ==
    <<"B","i","n","[","2"," ","R","e","a","l","=","0","x","1"," ","I","m","a","g","=","0","x","2"," ","\n">>

BadBinDec ==
    <<"B","i","n","[","A","]"," ","R","e","a","l","=","0","x","1"," ","I","m","a","g","=","0","x","2"," ","\n">>

NoRealTag ==
    <<"B","i","n","[","2","]"," ","I","m","a","g","=","0","x","2"," ","\n">>

NoRealSpace ==
    <<"B","i","n","[","2","]"," ","I","m","a","g","=","0","x","2"," ","R","e","a","l","=","0","x","1","\n">>

BadRealHex ==
    <<"B","i","n","[","2","]"," ","R","e","a","l","=","0","x","G"," ","I","m","a","g","=","0","x","2"," ","\n">>

NoImagTag ==
    <<"B","i","n","[","2","]"," ","R","e","a","l","=","0","x","1"," ","\n">>

NoImagSpace ==
    <<"B","i","n","[","2","]"," ","R","e","a","l","=","0","x","1"," ","I","m","a","g","=","0","x","2","\n">>

BadImagHex ==
    <<"B","i","n","[","2","]"," ","R","e","a","l","=","0","x","1"," ","I","m","a","g","=","0","x"," ","\n">>

\* One numeric field of a data line, as lines 16-18 (and 20-22, 24-26) compute
\* it: the text after the first tag up to the next delimiter, read in the base.
Field(s, tag, delim, base) ==
    LET i == StrIndex(s, tag)
        a == i + Len(tag)
        j == IF i = -1 THEN -1 ELSE StrIndex(SliceFrom(s, a), delim)
    IN  IF i = -1 THEN [ok |-> FALSE, at |-> "start", val |-> [neg |-> FALSE, mag |-> <<0>>]]
        ELSE IF j = -1 THEN [ok |-> FALSE, at |-> "end", val |-> [neg |-> FALSE, mag |-> <<0>>]]
        ELSE LET n == PyInt(Slice(s, a, a + j), base)
             IN  [ok |-> n.ok, at |-> "append", val |-> n.val]

\* The body of the for loop as a function of the line: the triple it appends,
\* or the first statement of lines 16-26 that raises.
ParseLine(s) ==
    LET b == Field(s, BinTag, BinClose, 10)
        r == Field(s, RealTag, Space, 16)
        i == Field(s, ImagTag, Space, 16)
    IN  [ok   |-> b.ok /\ r.ok /\ i.ok,
         at   |-> IF ~b.ok THEN IF b.at = "append" THEN "bins_append" ELSE "bin_" \o b.at
                  ELSE IF ~r.ok THEN "real_" \o r.at
                  ELSE IF ~i.ok THEN "imag_" \o i.at
                  ELSE "none",
         bin  |-> b.val,
         real |-> r.val,
         imag |-> i.val]

RECURSIVE Flatten(_)
Flatten(ss) == IF ss = <<>> THEN <<>> ELSE ss[1] \o Flatten(Tail(ss))

SeqsUpTo(S, n) == UNION {[1..k -> S] : k \in 0..n}

\* What a generated file is made of: header variants, the blank line with
\* either line ending, two well-formed data lines and a malformed one.
FilePool ==
    {HEADER, HeaderText, HeaderTrailingSpace, BLANK, <<"\r", "\n">>,
     Scenario0, Scenario1, NoImagSpace}

Files == {Flatten(ss) : ss \in SeqsUpTo(FilePool, MaxSegs)}

GoodLines ==
    {Scenario0, Scenario1, GoodSigned, GoodBare, GoodZeros, GoodReordered}

BadLines ==
    {NoBinOpen, NoBinClose, BadBinDec, NoRealTag, NoRealSpace, BadRealHex,
     NoImagTag, NoImagSpace, BadImagHex}

\* Files of the documented shape: the header, data lines, a blank line.
BlockFiles ==
    {HEADER \o Flatten(ss) \o BLANK : ss \in SeqsUpTo(GoodLines \cup BadLines, MaxData)}

\* ---------------------------------------------------------------- the state

VARIABLES
    exists,      \* whether stdout.txt can be opened
    content,     \* the characters of stdout.txt
    fopen,       \* whether the handle f is open
    lines,       \* line 7
    start,       \* line 8
    end,         \* line 9
    bins,        \* line 11
    real,        \* line 12
    imag,        \* line 13
    it,          \* how many elements of lines[start:end] the for loop has taken
    block,       \* lines[start:end], the list the for loop iterates
    l,           \* the loop variable
    bin_start, bin_end, real_start, real_end, imag_start, imag_end,
    stdout,      \* what print has written
    chart,       \* the series plt.plot has added
    legend,      \* whether plt.legend has run
    shown,       \* whether plt.show has run
    pc,          \* the statement to run next
    err,         \* the exception that ended the run, "none" while there is none
    errAt        \* the statement that raised it

vars ==
    <<exists, content, fopen, lines, start, end, bins, real, imag, it, block, l,
      bin_start, bin_end, real_start, real_end, imag_start, imag_end,
      stdout, chart, legend, shown, pc, err, errAt>>

fileVars == <<exists, content>>
locVars == <<start, end>>
listVars == <<bins, real, imag>>
loopVars == <<it, block, l>>
idxVars == <<bin_start, bin_end, real_start, real_end, imag_start, imag_end>>
plotVars == <<chart, legend, shown>>

\* Before the script binds them the int variables hold -1 and the lists <<>>.
Fresh ==
    /\ fopen = FALSE
    /\ lines = <<>>
    /\ start = -1 /\ end = -1
    /\ bins = <<>> /\ real = <<>> /\ imag = <<>>
    /\ it = 0 /\ block = <<>> /\ l = <<>>
    /\ bin_start = -1 /\ bin_end = -1
    /\ real_start = -1 /\ real_end = -1
    /\ imag_start = -1 /\ imag_end = -1
    /\ stdout = <<>>
    /\ chart = <<>> /\ legend = FALSE /\ shown = FALSE
    /\ pc = "open" /\ err = "none" /\ errAt = "none"

Init ==
    /\ \/ exists = FALSE /\ content = <<>>
       \/ exists = TRUE /\ content \in Files
    /\ Fresh

InitBlock ==
    /\ exists = TRUE
    /\ content \in BlockFiles
    /\ Fresh

\* An uncaught exception ends the run at the statement that raised it.
Raise(exc) ==
    /\ pc' = "raised"
    /\ err' = exc
    /\ errAt' = pc

Goto(next) ==
    /\ pc' = next
    /\ UNCHANGED <<err, errAt>>

\* --------------------------------------------------------------- the script

\* line 6: with open(FILE, 'r') as f
Open ==
    /\ pc = "open"
    /\ IF exists
       THEN fopen' = TRUE /\ Goto("readlines")
       ELSE fopen' = FALSE /\ Raise("FileNotFoundError")
    /\ UNCHANGED <<fileVars, lines, locVars, listVars, loopVars, idxVars, stdout, plotVars>>

\* line 7: lines = f.readlines()
ReadLines ==
    /\ pc = "readlines"
    /\ lines' = ReadLinesOf(content)
    /\ Goto("close")
    /\ UNCHANGED <<fileVars, fopen, locVars, listVars, loopVars, idxVars, stdout, plotVars>>

\* Variant: open() without the with block, f never closed.
Close_Leaks ==
    /\ pc = "close"
    /\ fopen' = fopen
    /\ Goto("start")
    /\ UNCHANGED <<fileVars, lines, locVars, listVars, loopVars, idxVars, stdout, plotVars>>

\* the end of the with block of line 6: f is closed
Close ==
    /\ pc = "close"
    /\ fopen' = FALSE
    /\ Goto("start")
    /\ UNCHANGED <<fileVars, lines, locVars, listVars, loopVars, idxVars, stdout, plotVars>>

\* Variant: the header is looked up among the lines stripped of trailing
\* whitespace.
LocateStart_Stripped ==
    /\ pc = "start"
    /\ LET h == ListIndex([j \in 1..Len(lines) |-> RStrip(lines[j])], RStrip(HEADER))
       IN  IF h = -1
           THEN Raise("ValueError") /\ UNCHANGED start
           ELSE start' = h + 1 /\ Goto("end")
    /\ UNCHANGED <<fileVars, fopen, lines, end, listVars, loopVars, idxVars, stdout, plotVars>>

\* line 8: start = lines.index("Capturing FFT output (frequency domain):\n") + 1
LocateStart ==
    /\ pc = "start"
    /\ LET h == ListIndex(lines, HEADER)
       IN  IF h = -1
           THEN Raise("ValueError") /\ UNCHANGED start
           ELSE start' = h + 1 /\ Goto("end")
    /\ UNCHANGED <<fileVars, fopen, lines, end, listVars, loopVars, idxVars, stdout, plotVars>>

\* Variant: end = start + lines.index("\n"), the blank line looked up in the
\* whole file.
LocateEnd_WholeFile ==
    /\ pc = "end"
    /\ LET b == ListIndex(lines, BLANK)
       IN  IF b = -1
           THEN Raise("ValueError") /\ UNCHANGED end
           ELSE end' = start + b /\ Goto("lists")
    /\ UNCHANGED <<fileVars, fopen, lines, start, listVars, loopVars, idxVars, stdout, plotVars>>

\* Variant: end one past the blank line.
LocateEnd_OffByOne ==
    /\ pc = "end"
    /\ LET b == ListIndex(SliceFrom(lines, start), BLANK)
       IN  IF b = -1
           THEN Raise("ValueError") /\ UNCHANGED end
           ELSE end' = start + b + 1 /\ Goto("lists")
    /\ UNCHANGED <<fileVars, fopen, lines, start, listVars, loopVars, idxVars, stdout, plotVars>>

\* line 9: end = start + lines[start:].index("\n")
LocateEnd ==
    /\ pc = "end"
    /\ LET b == ListIndex(SliceFrom(lines, start), BLANK)
       IN  IF b = -1
           THEN Raise("ValueError") /\ UNCHANGED end
           ELSE end' = start + b /\ Goto("lists")
    /\ UNCHANGED <<fileVars, fopen, lines, start, listVars, loopVars, idxVars, stdout, plotVars>>

\* lines 11-13: bins = []; real = []; imag = []
InitLists ==
    /\ pc = "lists"
    /\ bins' = <<>> /\ real' = <<>> /\ imag' = <<>>
    /\ Goto("for")
    /\ UNCHANGED <<fileVars, fopen, lines, locVars, loopVars, idxVars, stdout, plotVars>>

\* Variant: for l in lines[start+1:end], the first data line skipped.
ForNext_FromStartPlusOne ==
    /\ pc = "for"
    /\ LET xs == Slice(lines, start + 1, end)
       IN  /\ block' = xs
           /\ IF it < Len(xs)
              THEN l' = xs[it + 1] /\ it' = it + 1 /\ Goto("print")
              ELSE UNCHANGED <<l, it>> /\ Goto("plot_real")
    /\ UNCHANGED <<fileVars, fopen, lines, locVars, listVars, idxVars, stdout, plotVars>>

\* line 14: for l in lines[start:end]
ForNext ==
    /\ pc = "for"
    /\ LET xs == Slice(lines, start, end)
       IN  /\ block' = xs
           /\ IF it < Len(xs)
              THEN l' = xs[it + 1] /\ it' = it + 1 /\ Goto("print")
              ELSE UNCHANGED <<l, it>> /\ Goto("plot_real")
    /\ UNCHANGED <<fileVars, fopen, lines, locVars, listVars, idxVars, stdout, plotVars>>

\* line 15: print(l)
PrintLine ==
    /\ pc = "print"
    /\ stdout' = Append(stdout, l \o <<"\n">>)
    /\ Goto("bin_start")
    /\ UNCHANGED <<fileVars, fopen, lines, locVars, listVars, loopVars, idxVars, plotVars>>

\* line 16: bin_start = l.index("Bin[") + 4
BinStart ==
    /\ pc = "bin_start"
    /\ LET i == StrIndex(l, BinTag)
       IN  IF i = -1
           THEN Raise("ValueError") /\ UNCHANGED bin_start
           ELSE bin_start' = i + 4 /\ Goto("bin_end")
    /\ UNCHANGED <<fileVars, fopen, lines, locVars, listVars, loopVars,
                   bin_end, real_start, real_end, imag_start, imag_end, stdout, plotVars>>

\* line 17: bin_end = bin_start + l[bin_start:].index("]")
BinEnd ==
    /\ pc = "bin_end"
    /\ LET i == StrIndex(SliceFrom(l, bin_start), BinClose)
       IN  IF i = -1
           THEN Raise("ValueError") /\ UNCHANGED bin_end
           ELSE bin_end' = bin_start + i /\ Goto("bins_append")
    /\ UNCHANGED <<fileVars, fopen, lines, locVars, listVars, loopVars,
                   bin_start, real_start, real_end, imag_start, imag_end, stdout, plotVars>>

\* line 18: bins.append(int(l[bin_start:bin_end]))
BinsAppend ==
    /\ pc = "bins_append"
    /\ LET n == PyInt(Slice(l, bin_start, bin_end), 10)
       IN  IF n.ok
           THEN bins' = Append(bins, n.val) /\ Goto("real_start")
           ELSE Raise("ValueError") /\ UNCHANGED bins
    /\ UNCHANGED <<fileVars, fopen, lines, locVars, real, imag, loopVars, idxVars, stdout, plotVars>>

\* line 20: real_start = l.index("Real=") + 5
RealStart ==
    /\ pc = "real_start"
    /\ LET i == StrIndex(l, RealTag)
       IN  IF i = -1
           THEN Raise("ValueError") /\ UNCHANGED real_start
           ELSE real_start' = i + 5 /\ Goto("real_end")
    /\ UNCHANGED <<fileVars, fopen, lines, locVars, listVars, loopVars,
                   bin_start, bin_end, real_end, imag_start, imag_end, stdout, plotVars>>

\* line 21: real_end = real_start + l[real_start:].index(" ")
RealEnd ==
    /\ pc = "real_end"
    /\ LET i == StrIndex(SliceFrom(l, real_start), Space)
       IN  IF i = -1
           THEN Raise("ValueError") /\ UNCHANGED real_end
           ELSE real_end' = real_start + i /\ Goto("real_append")
    /\ UNCHANGED <<fileVars, fopen, lines, locVars, listVars, loopVars,
                   bin_start, bin_end, real_start, imag_start, imag_end, stdout, plotVars>>

\* line 22: real.append(int(l[real_start:real_end], 16))
RealAppend ==
    /\ pc = "real_append"
    /\ LET n == PyInt(Slice(l, real_start, real_end), 16)
       IN  IF n.ok
           THEN real' = Append(real, n.val) /\ Goto("imag_start")
           ELSE Raise("ValueError") /\ UNCHANGED real
    /\ UNCHANGED <<fileVars, fopen, lines, locVars, bins, imag, loopVars, idxVars, stdout, plotVars>>

\* line 24: imag_start = l.index("Imag=") + 5
ImagStart ==
    /\ pc = "imag_start"
    /\ LET i == StrIndex(l, ImagTag)
       IN  IF i = -1
           THEN Raise("ValueError") /\ UNCHANGED imag_start
           ELSE imag_start' = i + 5 /\ Goto("imag_end")
    /\ UNCHANGED <<fileVars, fopen, lines, locVars, listVars, loopVars,
                   bin_start, bin_end, real_start, real_end, imag_end, stdout, plotVars>>

\* Variant: a field with no space after it runs to the end of the line.
ImagEnd_ToEndOfLine ==
    /\ pc = "imag_end"
    /\ LET i == StrIndex(SliceFrom(l, imag_start), Space)
       IN  IF i = -1
           THEN imag_end' = Len(l) /\ Goto("imag_append")
           ELSE imag_end' = imag_start + i /\ Goto("imag_append")
    /\ UNCHANGED <<fileVars, fopen, lines, locVars, listVars, loopVars,
                   bin_start, bin_end, real_start, real_end, imag_start, stdout, plotVars>>

\* Variant: a line with no space after the Imag field is skipped (continue).
ImagEnd_SkipsLine ==
    /\ pc = "imag_end"
    /\ LET i == StrIndex(SliceFrom(l, imag_start), Space)
       IN  IF i = -1
           THEN UNCHANGED imag_end /\ Goto("for")
           ELSE imag_end' = imag_start + i /\ Goto("imag_append")
    /\ UNCHANGED <<fileVars, fopen, lines, locVars, listVars, loopVars,
                   bin_start, bin_end, real_start, real_end, imag_start, stdout, plotVars>>

\* line 25: imag_end = imag_start + l[imag_start:].index(" ")
ImagEnd ==
    /\ pc = "imag_end"
    /\ LET i == StrIndex(SliceFrom(l, imag_start), Space)
       IN  IF i = -1
           THEN Raise("ValueError") /\ UNCHANGED imag_end
           ELSE imag_end' = imag_start + i /\ Goto("imag_append")
    /\ UNCHANGED <<fileVars, fopen, lines, locVars, listVars, loopVars,
                   bin_start, bin_end, real_start, real_end, imag_start, stdout, plotVars>>

\* A value of 2^31 .. 2^32 - 1 read as a 32-bit two's-complement number.
Signed32(v) ==
    LET hs == HexDigitsOf(v.mag)
    IN  IF ~v.neg /\ Len(hs) = 8 /\ hs[1] >= 8
        THEN [neg |-> TRUE,
              mag |-> MulAdd(Accumulate([k \in 1..8 |-> HexChars[16 - hs[k]]], 16, <<0>>), 1, 1)]
        ELSE v

\* Variant: the value is reinterpreted as a signed 32-bit number.
ImagAppend_Signed32 ==
    /\ pc = "imag_append"
    /\ LET n == PyInt(Slice(l, imag_start, imag_end), 16)
       IN  IF n.ok
           THEN imag' = Append(imag, Signed32(n.val)) /\ Goto("for")
           ELSE Raise("ValueError") /\ UNCHANGED imag
    /\ UNCHANGED <<fileVars, fopen, lines, locVars, bins, real, loopVars, idxVars, stdout, plotVars>>

\* line 26: imag.append(int(l[imag_start:imag_end], 16))
ImagAppend ==
    /\ pc = "imag_append"
    /\ LET n == PyInt(Slice(l, imag_start, imag_end), 16)
       IN  IF n.ok
           THEN imag' = Append(imag, n.val) /\ Goto("for")
           ELSE Raise("ValueError") /\ UNCHANGED imag
    /\ UNCHANGED <<fileVars, fopen, lines, locVars, bins, real, loopVars, idxVars, stdout, plotVars>>

\* plt.plot(x, y): x and y must have the same length
Series(x, y, label) == [x |-> x, y |-> y, label |-> label]

\* Variant: plotting an empty series raises.
PlotReal_NeedsData ==
    /\ pc = "plot_real"
    /\ IF Len(bins) = Len(real) /\ bins # <<>>
       THEN chart' = Append(chart, Series(bins, real, "Real")) /\ Goto("plot_imag")
       ELSE Raise("ValueError") /\ UNCHANGED chart
    /\ UNCHANGED <<fileVars, fopen, lines, locVars, listVars, loopVars, idxVars, stdout, legend, shown>>

\* line 28: plt.plot(bins, real, label="Real")
PlotReal ==
    /\ pc = "plot_real"
    /\ IF Len(bins) = Len(real)
       THEN chart' = Append(chart, Series(bins, real, "Real")) /\ Goto("plot_imag")
       ELSE Raise("ValueError") /\ UNCHANGED chart
    /\ UNCHANGED <<fileVars, fopen, lines, locVars, listVars, loopVars, idxVars, stdout, legend, shown>>

\* line 29: plt.plot(bins, imag, label="Imag")
PlotImag ==
    /\ pc = "plot_imag"
    /\ IF Len(bins) = Len(imag)
       THEN chart' = Append(chart, Series(bins, imag, "Imag")) /\ Goto("legend")
       ELSE Raise("ValueError") /\ UNCHANGED chart
    /\ UNCHANGED <<fileVars, fopen, lines, locVars, listVars, loopVars, idxVars, stdout, legend, shown>>

\* line 30: plt.legend()
Legend ==
    /\ pc = "legend"
    /\ legend' = TRUE
    /\ Goto("show")
    /\ UNCHANGED <<fileVars, fopen, lines, locVars, listVars, loopVars, idxVars, stdout, chart, shown>>

\* line 31: plt.show()
Show ==
    /\ pc = "show"
    /\ shown' = TRUE
    /\ Goto("done")
    /\ UNCHANGED <<fileVars, fopen, lines, locVars, listVars, loopVars, idxVars, stdout, chart, legend>>

Next ==
    \/ Open \/ ReadLines \/ Close
    \/ LocateStart \/ LocateEnd \/ InitLists
    \/ ForNext \/ PrintLine
    \/ BinStart \/ BinEnd \/ BinsAppend
    \/ RealStart \/ RealEnd \/ RealAppend
    \/ ImagStart \/ ImagEnd \/ ImagAppend
    \/ PlotReal \/ PlotImag \/ Legend \/ Show

Spec == Init /\ [][Next]_vars

SpecBlock == InitBlock /\ [][Next]_vars

\* ------------------------------------------------- statements about the run

\* lines holds what readlines returned.
Loaded == pc \notin {"open", "readlines"} /\ errAt # "open"

\* The position in lines (from 1) of the header line, 0 when there is none.
HeaderPos ==
    IF \E h \in 1..Len(lines) : lines[h] = HEADER
    THEN CHOOSE h \in 1..Len(lines) :
             lines[h] = HEADER /\ \A j \in 1..(h - 1) : lines[j] # HEADER
    ELSE 0

\* The position of the first blank line after the header line, 0 when there
\* is none.
BlankPos ==
    IF HeaderPos > 0 /\ \E b \in (HeaderPos + 1)..Len(lines) : lines[b] = BLANK
    THEN CHOOSE b \in (HeaderPos + 1)..Len(lines) :
             lines[b] = BLANK /\ \A j \in (HeaderPos + 1)..(b - 1) : lines[j] # BLANK
    ELSE 0

\* The lines strictly between the two.
DataLines == SubSeq(lines, HeaderPos + 1, BlankPos - 1)

ParseStmts ==
    {"bin_start", "bin_end", "bins_append", "real_start", "real_end",
     "real_append", "imag_start", "imag_end", "imag_append"}

PlotStmts == {"plot_real", "plot_imag", "legend", "show", "done"}

NothingEmitted ==
    /\ stdout = <<>>
    /\ bins = <<>> /\ real = <<>> /\ imag = <<>>
    /\ chart = <<>> /\ ~legend /\ ~shown

\* C1: when the file holds the header, N >= 0 well-formed data lines and then
\* a blank line, the run raises nothing, every sample appended so far is the
\* parse of the data line at the same position, and once the loop is over
\* there are exactly N samples.
Thm_C1_SamplesInFileOrder ==
    (Loaded /\ BlankPos > 0 /\ \A i \in 1..Len(DataLines) : ParseLine(DataLines[i]).ok)
    => /\ err = "none"
       /\ Len(bins) <= Len(DataLines) /\ Len(real) <= Len(DataLines)
       /\ Len(imag) <= Len(DataLines)
       /\ \A i \in 1..Len(bins) : bins[i] = ParseLine(DataLines[i]).bin
       /\ \A i \in 1..Len(real) : real[i] = ParseLine(DataLines[i]).real
       /\ \A i \in 1..Len(imag) : imag[i] = ParseLine(DataLines[i]).imag
       /\ pc \in PlotStmts
          => Len(bins) = Len(DataLines) /\ Len(real) = Len(DataLines)
             /\ Len(imag) = Len(DataLines)

\* Two different data lines parsed, the second first in the file.
Wit_C1_TwoLinesParsed ==
    /\ pc = "done"
    /\ DataLines = <<Scenario1, Scenario0>>
    /\ Len(bins) = 2 /\ bins[1] = [neg |-> FALSE, mag |-> <<1>>]
    /\ bins[2] = [neg |-> FALSE, mag |-> <<0>>]

\* C2: when no line equals the header text followed by a newline, the run
\* ends with ValueError at line 8 and has emitted nothing: no echo, no
\* sample, no chart.
Thm_C2_NoHeaderNoOutput ==
    (Loaded /\ \A j \in 1..Len(lines) : lines[j] # HEADER)
    => /\ NothingEmitted
       /\ pc \in {"close", "start", "raised"}
       /\ pc = "raised" => err = "ValueError" /\ errAt = "start"

\* The lookup has failed on a file that holds the header with a trailing
\* space and, as its last line, the header without a newline.
Wit_C2_NearMissHeaders ==
    /\ pc = "raised" /\ errAt = "start"
    /\ \E j \in 1..Len(lines) : lines[j] = HeaderTrailingSpace
    /\ lines # <<>> /\ lines[Len(lines)] = HeaderText

\* C3: when the header line is there and no line after it equals "\n", the
\* run ends with ValueError at line 9 and has emitted nothing.
Thm_C3_NoTerminatorNoOutput ==
    (Loaded /\ HeaderPos > 0 /\ \A j \in (HeaderPos + 1)..Len(lines) : lines[j] # BLANK)
    => /\ NothingEmitted
       /\ pc \in {"close", "start", "end", "raised"}
       /\ pc = "raised" => err = "ValueError" /\ errAt = "end"

\* The terminator lookup has failed on a file with a blank line before the
\* header and a data line after it.
Wit_C3_BlankOnlyBeforeHeader ==
    /\ pc = "raised" /\ errAt = "end"
    /\ \E j \in 1..(HeaderPos - 1) : lines[j] = BLANK
    /\ HeaderPos < Len(lines)

\* How lines 8-9 cut a list of lines: <<>> where one of the lookups raises.
CutOf(xs) ==
    LET h == ListIndex(xs, HEADER)
        b == IF h = -1 THEN -1 ELSE ListIndex(SliceFrom(xs, h + 1), BLANK)
    IN  IF h = -1 \/ b = -1 THEN <<>> ELSE Slice(xs, h + 1, h + 1 + b)

\* C5: once line 9 has run, lines[start:end] is the run of lines strictly
\* between the first header line and the first blank line after it: the line
\* before it is the header, the line after it is blank, no line of it is
\* blank, and a line put before the header (not itself a header) or after the
\* terminator does not change it.
Thm_C5_BlockBetweenHeaderAndBlank ==
    (Loaded /\ end # -1)
    => /\ HeaderPos > 0 /\ BlankPos > 0
       /\ start = HeaderPos /\ end = BlankPos - 1
       /\ Slice(lines, start, end) = DataLines
       /\ lines[start] = HEADER /\ lines[end + 1] = BLANK
       /\ \A i \in 1..Len(DataLines) : DataLines[i] # BLANK
       /\ pc \notin {"lists", "for"} => block = DataLines
       /\ \A x \in FilePool \ {HEADER} :
              /\ (x[Len(x)] = "\n" => CutOf(<<x>> \o lines) = DataLines)
              /\ CutOf(lines \o <<x>>) = DataLines
       /\ CutOf(lines \o <<HEADER>>) = DataLines

\* A block of one data line cut out of a file with a blank line before the
\* header and a blank line after the terminator.
Wit_C5_BlockCut ==
    /\ pc = "done"
    /\ lines = <<BLANK, HEADER, Scenario0, BLANK>>
    /\ block = <<Scenario0>>

\* The positions in the block of the lines the loop body cannot parse.
BadPositions == {i \in 1..Len(DataLines) : ~ParseLine(DataLines[i]).ok}

\* C4: when a line of the block lacks a required token or holds a number that
\* does not parse in its base, nothing is ever plotted, and the run ends with
\* ValueError raised by the loop body while it handles the first such line,
\* at the statement that looks for the missing token or converts the number.
\* A chart exists only when every line of the block has parsed.
Thm_C4_MalformedLineNoChart ==
    /\ (Loaded /\ BlankPos > 0 /\ BadPositions # {})
       => /\ chart = <<>> /\ ~legend /\ ~shown
          /\ pc \notin PlotStmts
          /\ pc = "raised"
             => /\ err = "ValueError"
                /\ errAt \in ParseStmts
                /\ it = Min(BadPositions)
                /\ l = DataLines[it]
                /\ errAt = ParseLine(l).at
                /\ (errAt = "bin_start") = (StrIndex(l, BinTag) = -1)
                /\ errAt = "bin_end" => \A k \in (bin_start + 1)..Len(l) : l[k] # "]"
                /\ errAt = "real_start" => StrIndex(l, RealTag) = -1
                /\ errAt = "real_end" => \A k \in (real_start + 1)..Len(l) : l[k] # " "
                /\ errAt = "imag_start" => StrIndex(l, ImagTag) = -1
                /\ errAt = "imag_end" => \A k \in (imag_start + 1)..Len(l) : l[k] # " "
    /\ (chart # <<>> \/ shown) => (BlankPos > 0 /\ BadPositions = {})

\* The run has ended at a malformed line that follows a well-formed one.
Wit_C4_SecondLineMalformed ==
    /\ pc = "raised" /\ errAt = "real_append"
    /\ DataLines = <<Scenario0, BadRealHex>>
    /\ it = 2 /\ Len(bins) = 2 /\ Len(real) = 1
    /\ chart = <<>>

\* The text of the field after a tag, as the loop body slices it.
TokenOf(s, tag) ==
    LET a == StrIndex(s, tag) + Len(tag)
    IN  Slice(s, a, a + StrIndex(SliceFrom(s, a), Space))

Unsigned(tok) == Strip(tok) # <<>> /\ Strip(tok)[1] \notin {"+", "-"}

\* The digit values a hexadecimal token spells, read off the text: the 0x
\* and the underscores left out, leading zeros dropped.
SpelledDigits(tok) ==
    LET s    == Strip(tok)
        u    == IF Len(s) >= 2 /\ s[1] = "0" /\ s[2] \in {"x", "X"}
                THEN SubSeq(s, 3, Len(s)) ELSE s
        NotUnderscore(ch) == ch # "_"
        w    == SelectSeq(u, NotUnderscore)
    IN  Norm([k \in 1..Len(w) |-> DigitValue(w[k])])

PlainHex(v, tok) ==
    Unsigned(tok) => ~v.neg /\ HexDigitsOf(v.mag) = SpelledDigits(tok)

\* C6: every Real= and Imag= value appended from a token without a sign is
\* non-negative and has exactly the base-16 digits the token spells; the
\* token 0xFFFFFFF6 gives 4294967286, not -10.
Thm_C6_PlainBase16 ==
    Loaded
    => /\ \A i \in 1..Len(real) : PlainHex(real[i], TokenOf(DataLines[i], RealTag))
       /\ \A i \in 1..Len(imag) :
              /\ PlainHex(imag[i], TokenOf(DataLines[i], ImagTag))
              /\ DataLines[i] = Scenario0
                 => imag[i] = [neg |-> FALSE, mag |-> <<4, 2, 9, 4, 9, 6, 7, 2, 8, 6>>]

\* Imag=0xFFFFFFF6 has been appended.
Wit_C6_HighBitSet ==
    /\ Len(imag) >= 1
    /\ DataLines[1] = Scenario0
    /\ imag[1].mag = <<4, 2, 9, 4, 9, 6, 7, 2, 8, 6>>
    /\ real[1] = [neg |-> FALSE, mag |-> <<1, 0>>]

\* str(v) and hex(v)
DecText(v) ==
    (IF v.neg THEN <<"-">> ELSE <<>>) \o [k \in 1..Len(v.mag) |-> DecChars[v.mag[k] + 1]]

HexText(v) ==
    LET hs == HexDigitsOf(v.mag)
    IN  (IF v.neg THEN <<"-">> ELSE <<>>) \o <<"0", "x">>
        \o [k \in 1..Len(hs) |-> HexChars[hs[k] + 1]]

\* A sample written back in the token format of a data line.
Serialize(b, r, i) ==
    BinTag \o DecText(b) \o BinClose \o Space
    \o RealTag \o HexText(r) \o Space \o ImagTag \o HexText(i) \o Space \o <<"\n">>

\* C7: every sample the loop body has appended, written back as
\* "Bin[<dec>] Real=<hex> Imag=<hex> " and parsed again, gives the same triple.
Thm_C7_RoundTrip ==
    \A i \in 1..Len(imag) :
        LET p == ParseLine(Serialize(bins[i], real[i], imag[i]))
        IN  p.ok /\ p.bin = bins[i] /\ p.real = real[i] /\ p.imag = imag[i]

\* A sample with a negative field and one with a field above 2^32 / 2 have
\* been appended.
Wit_C7_SignedAndLarge ==
    /\ Len(imag) = 2
    /\ real[1] = [neg |-> TRUE, mag |-> <<1, 0>>]
    /\ bins[1] = [neg |-> FALSE, mag |-> <<1, 2>>]
    /\ imag[2].mag = <<4, 2, 9, 4, 9, 6, 7, 2, 8, 6>>

\* C8: when a blank line follows the header line directly the run raises
\* nothing and echoes nothing, the three lists stay empty, every statement up
\* to plt.show() can run, and the chart shown holds two empty series.
Thm_C8_EmptyBlockIsPlotted ==
    (Loaded /\ HeaderPos > 0 /\ HeaderPos < Len(lines) /\ lines[HeaderPos + 1] = BLANK)
    => /\ err = "none" /\ pc # "raised"
       /\ stdout = <<>>
       /\ bins = <<>> /\ real = <<>> /\ imag = <<>>
       /\ pc \notin ParseStmts \cup {"print"}
       /\ pc # "done" => ENABLED Next
       /\ pc = "done"
          => /\ shown /\ legend
             /\ chart = <<Series(<<>>, <<>>, "Real"), Series(<<>>, <<>>, "Imag")>>

\* The chart of an empty block has been shown; a data line follows the
\* terminator.
Wit_C8_EmptyChartShown ==
    /\ pc = "done" /\ shown
    /\ lines = <<HEADER, BLANK, Scenario0>>
    /\ chart = <<Series(<<>>, <<>>, "Real"), Series(<<>>, <<>>, "Imag")>>

\* C9: the handle is open only between open() and the end of the with block,
\* while lines 8-31 have not started: it is closed at every lookup, at every
\* statement of the loop, while the chart is built and shown, and wherever
\* the run ends.
Thm_C9_HandleClosedBeforeParsing ==
    /\ fopen => pc \in {"readlines", "close"}
    /\ pc \in {"start", "end", "lists", "for", "print", "raised"} \cup ParseStmts \cup PlotStmts
       => ~fopen
    /\ pc = "start" => lines = ReadLinesOf(content)

\* The run has ended in the loop body, after the file was read and closed.
Wit_C9_ClosedAtFormatFailure ==
    /\ pc = "raised" /\ errAt \in ParseStmts
    /\ ~fopen /\ lines # <<>>

\* C10: whenever a plot statement is reached the three lists have the length
\* of the block; their lengths differ only while the loop body is between
\* bins.append and imag.append of one line, bins ahead by one; and a run that
\* ends there has plotted nothing.
Thm_C10_EqualLengthsAtPlot ==
    /\ pc \in PlotStmts
       => Len(bins) = end - start /\ Len(real) = end - start /\ Len(imag) = end - start
    /\ (Len(bins) # Len(real) \/ Len(real) # Len(imag))
       => /\ (IF pc = "raised" THEN errAt ELSE pc)
                \in {"real_start", "real_end", "real_append", "imag_start", "imag_end", "imag_append"}
          /\ Len(bins) = Len(imag) + 1
          /\ Len(real) \in {Len(imag), Len(imag) + 1}
          /\ chart = <<>> /\ ~shown
    /\ pc = "raised" => chart = <<>> /\ ~legend /\ ~shown

\* Two lines plotted.
Wit_C10_PlotReached ==
    /\ pc = "plot_imag"
    /\ Len(bins) = 2 /\ Len(real) = 2 /\ Len(imag) = 2
    /\ end - start = 2

====
